---- MODULE Spec2Model ----
(***************************************************************************)
(* Black Orchid: the ProxyHandler of src/black_orchid.py as a state        *)
(* machine.  The handler scans its module roots, loads every accepted      *)
(* file, registers the eligible top-level names of each loaded module      *)
(* under collision-aware keys, and reloads all modules or one module on    *)
(* request.                                                                *)
(*                                                                         *)
(* Names, module identifiers and registry keys are Python strings; they    *)
(* are modelled as sequences of one-character strings so that the string   *)
(* tests of the code (islower, startswith, "__" in x, sorted order of      *)
(* dir(), f"{name}_{module}") are computed and not assumed.                *)
(***************************************************************************)
EXTENDS Integers, Sequences, FiniteSets, TLC

VARIABLES
    fs,                \* the files directly under each root: fs[root][stem]
    priv_exists,       \* whether private/modules exists on disk
    dirorder,          \* the order in which glob lists the stems of a directory
    valid_dirs,        \* self.valid_dirs
    registry,          \* self.registry: key -> tool metadata
    name_tracker,      \* self._name_tracker: original name -> <<module, key>> list
    rejected_modules,  \* self.rejected_modules: <<path, reason>> list
    loaded_mods,       \* self.loaded_mods: module identifier -> namespace
    sys_modules,       \* the identifiers the handler has put into sys.modules
    okmods,            \* self.okmods: the accepted resolved paths, in scan order
    idx,               \* position of the loading loop in okmods
    pending,           \* the part of clean_list not yet registered
    cur_mod,           \* module_name of the module being registered
    old_tool_names,    \* reload_module's snapshot of the module's keys
    pc,                \* "boot", "load", "register" or "idle"
    op,                \* the handler that is running: "init", "reload_all", "reload_one"
    result,            \* what the last finished handler returned or raised
    before,            \* the registry when the last request began (history)
    prior,             \* what the previous reload_all left, if nothing changed since (history)
    last,              \* the step taken last (history, for stating the claims)
    reply,             \* what the latest use_proxy_tool or list_tools call gave
    budget             \* requests and filesystem changes still allowed

vars == <<fs, priv_exists, dirorder, valid_dirs, registry, name_tracker,
          rejected_modules, loaded_mods, sys_modules, okmods, idx, pending,
          cur_mod, old_tool_names, pc, op, result, before, prior, last, reply,
          budget>>

handler_vars == <<valid_dirs, registry, name_tracker, rejected_modules,
                  loaded_mods, sys_modules, okmods, idx, pending, cur_mod,
                  old_tool_names, pc, op, result, before, prior>>

-----------------------------------------------------------------------------
(* Bounds *)

\* requests (reload_all, reload_one) and filesystem changes after startup
MaxSteps == 2

-----------------------------------------------------------------------------
(* Strings *)

\* the characters that occur, in code point order ("K" < "_" < "a" < ...)
Alphabet == <<"K", "_", "a", "b", "e", "f", "h", "k", "l", "o", "r", "s", "t",
              "x", "y", "z">>

Upper == {"K"}
Lower == {"a", "b", "e", "f", "h", "k", "l", "o", "r", "s", "t", "x", "y", "z"}

CharOrd(c) == CHOOSE i \in 1..Len(Alphabet) : Alphabet[i] = c

\* Python's str < str: lexicographic by code point, a proper prefix first
RECURSIVE StrLess(_, _)
StrLess(a, b) ==
    IF b = <<>> THEN FALSE
    ELSE IF a = <<>> THEN TRUE
    ELSE IF Head(a) = Head(b) THEN StrLess(Tail(a), Tail(b))
    ELSE CharOrd(Head(a)) < CharOrd(Head(b))

\* sorted(S) for a set of strings
RECURSIVE Sorted(_)
Sorted(S) ==
    IF S = {} THEN <<>>
    ELSE LET m == CHOOSE a \in S : \A b \in S \ {a} : StrLess(a, b)
         IN  <<m>> \o Sorted(S \ {m})

\* "__" in x
HasDunder(x) == \E i \in 1..(Len(x) - 1) : x[i] = "_" /\ x[i + 1] = "_"

\* x.islower(): at least one cased character and no uppercase one
IsLower(x) ==
    /\ \E i \in 1..Len(x) : x[i] \in Lower
    /\ \A i \in 1..Len(x) : x[i] \notin Upper

\* x.startswith('_')
StartsWithUnderscore(x) == Len(x) >= 1 /\ x[1] = "_"

\* f"{original_name}_{module_name}"
Suffixed(original_name, module_name) == original_name \o <<"_">> \o module_name

-----------------------------------------------------------------------------
(* The names and files of the model *)

foo == <<"f", "o", "o">>
bar == <<"b", "a", "r">>
dunder_name == <<"_", "_", "a", "_", "_">>
\* a lowercase name bound to something that is not callable (import os)
os_name == <<"o", "s">>
\* an underscore-prefixed helper function
helper_name == <<"_", "h">>

mx == <<"x">>
my == <<"y">>
mz == <<"z">>

\* the reserved identifier, compared with mod_path.stem
toolset == <<"t", "o", "o", "l", "s", "e", "t">>

Stems == {mx, my, mz}
\* the stems a directory listing can show
FileStems == Stems \cup {toolset}
Roots == {"modules", "private/modules"}

\* the module files that may appear in each root
StemsIn(d) == IF d = "modules" THEN Stems ELSE {mx}

\* statements of a module's source
Def(n, d) == [stmt |-> "def", name |-> n, doc |-> d]
Raise == [stmt |-> "raise", name |-> <<>>, doc |-> "none"]
\* a statement that binds a name to a value that is not callable
Assign(n) == [stmt |-> "assign", name |-> n, doc |-> "none"]

\* file contents: text is "ok", "syntax_error" (ast.parse fails) or
\* "unreadable" (open/read fails); body is what executing the file does
CFoo == [text |-> "ok", body |-> <<Def(foo, "d1")>>]
CFooBar == [text |-> "ok", body |-> <<Def(bar, "d1"), Def(foo, "d1")>>]
CFooRaise == [text |-> "ok", body |-> <<Def(foo, "d2"), Raise>>]
CBad == [text |-> "syntax_error", body |-> <<>>]
CHelper == [text |-> "ok",
            body |-> <<Assign(os_name), Def(helper_name, "d1"), Def(foo, "d1")>>]

Contents == {CFoo, CFooBar, CFooRaise, CBad, CHelper}

\* what may be written into a file of each root
ContentsIn(d) == IF d = "modules" THEN Contents ELSE {CFoo}

NoFile == [kind |-> "none"]
File(c) == [kind |-> "file", content |-> c]
\* a symbolic link whose target is a file outside every root
Link(c) == [kind |-> "link", content |-> c]

\* what the files outside the roots hold
OutsideContents == {CFoo}

Path(d, s) == [dir |-> d, stem |-> s]

-----------------------------------------------------------------------------
(* Executing a module *)

\* a Python object bound by a statement; gen tells the execution that made it
Obj(gen, s) ==
    [gen |-> gen, name |-> s.name, callable |-> (s.stmt = "def"), doc |-> s.doc]

Bind(ns, n, o) == [k \in DOMAIN ns \cup {n} |-> IF k = n THEN o ELSE ns[k]]

\* module_from_spec(spec): a new module object; its namespace holds only the
\* attributes the import system sets (__name__, __spec__, ...), one stands for all
ModuleFromSpec(gen) ==
    Bind(<<>>, dunder_name,
         [gen |-> gen, name |-> dunder_name, callable |-> FALSE, doc |-> "none"])

\* the statements of a module run in order, each binding a top-level name in
\* the namespace it is given; a raise stops the run and keeps what was bound
RECURSIVE ExecBody(_, _, _)
ExecBody(ns, body, gen) ==
    IF body = <<>> THEN [ns |-> ns, raised |-> FALSE]
    ELSE IF Head(body).stmt = "raise" THEN [ns |-> ns, raised |-> TRUE]
    ELSE ExecBody(Bind(ns, Head(body).name, Obj(gen, Head(body))), Tail(body), gen)

\* spec.loader.exec_module(module): read and compile the file (a file that
\* cannot be read or compiled raises before any statement runs), then run it
ExecModule(ns, file, gen) ==
    IF file.kind = "none" \/ file.content.text # "ok"
    THEN [ns |-> ns, raised |-> TRUE]
    ELSE ExecBody(ns, file.content.body, gen)

\* dir(tmod) filtered as at startup and in reload_all_modules
CleanList(ns) ==
    Sorted({n \in DOMAIN ns :
              ~HasDunder(n) /\ IsLower(n) /\ ~StartsWithUnderscore(n)})

\* dir(reloaded_module) filtered as in reload_module
CleanListReload(ns) ==
    Sorted({n \in DOMAIN ns : ~HasDunder(n) /\ IsLower(n)})

-----------------------------------------------------------------------------
(* Registration *)

EmptyMap == <<>>

Put(f, k, v) == [j \in DOMAIN f \cup {k} |-> IF j = k THEN v ELSE f[j]]

Without(f, ks) == [j \in DOMAIN f \ ks |-> f[j]]

\* the metadata dictionary of a tool
Entry(function, module_name, original_name, had_collision) ==
    [function |-> function,
     docstring |-> function.doc,
     source_module |-> module_name,
     original_name |-> original_name,
     had_collision |-> had_collision]

\* a wrong IsCollision: the registry, not the tracker, decides
IsCollisionByRegistry(reg, nt, original_name) == original_name \in DOMAIN reg

\* if original_name in self._name_tracker
IsCollision(reg, nt, original_name) == original_name \in DOMAIN nt

\* a wrong ShouldRename: the first occupant keeps the bare key
NeverRename(reg, nt, original_name) == FALSE

\* if first_tool_name == original_name and original_name in self.registry
ShouldRename(reg, nt, original_name) ==
    /\ nt[original_name][1][2] = original_name
    /\ original_name \in DOMAIN reg

\* a wrong RegisterFirst: a first sighting is suffixed like a collision
RegisterFirstSuffixed(reg, nt, original_name, module_name, function) ==
    [registry |-> Put(reg, Suffixed(original_name, module_name),
                      Entry(function, module_name, original_name, TRUE)),
     name_tracker |-> Put(nt, original_name,
                          <<<<module_name, Suffixed(original_name, module_name)>>>>)]

\* the else branch of _register_tool: first time seeing this name
RegisterFirst(reg, nt, original_name, module_name, function) ==
    [registry |-> Put(reg, original_name,
                      Entry(function, module_name, original_name, FALSE)),
     name_tracker |-> Put(nt, original_name, <<<<module_name, original_name>>>>)]

\* a wrong RenameFirst: the entry is moved but keeps its old flag and the
\* tracker still records the bare name
RenameFirstKeyOnly(reg, nt, original_name) ==
    LET first_module == nt[original_name][1][1]
        new_first_name == Suffixed(original_name, first_module)
    IN  [registry |-> Put(Without(reg, {original_name}), new_first_name,
                          reg[original_name]),
         name_tracker |-> nt]

\* the retroactive rename of the first occupant: its entry moves from the
\* bare key to name_<first module>, its flag is set and the first pair of
\* the history records the new key
RenameFirst(reg, nt, original_name) ==
    LET first_module == nt[original_name][1][1]
        new_first_name == Suffixed(original_name, first_module)
    IN  [registry |-> Put(Without(reg, {original_name}), new_first_name,
                          [reg[original_name] EXCEPT !.had_collision = TRUE]),
         name_tracker |-> [nt EXCEPT ![original_name][1] =
                              <<first_module, new_first_name>>]]

\* a wrong RegisterCollision: when the first occupant's bare key is gone the
\* newcomer takes the bare key
RegisterCollisionReuseBare(reg, nt, original_name, module_name, function) ==
    LET r1 == IF ShouldRename(reg, nt, original_name)
              THEN RenameFirst(reg, nt, original_name)
              ELSE [registry |-> reg, name_tracker |-> nt]
        new_tool_name == IF original_name \in DOMAIN r1.registry
                            \/ ShouldRename(reg, nt, original_name)
                         THEN Suffixed(original_name, module_name)
                         ELSE original_name
    IN  [registry |-> Put(r1.registry, new_tool_name,
                          Entry(function, module_name, original_name, TRUE)),
         name_tracker |-> [r1.name_tracker EXCEPT ![original_name] =
                              Append(@, <<module_name, new_tool_name>>)]]

\* the if branch of _register_tool: the first occupant is renamed when it
\* still holds the bare key, and the newcomer is registered with a suffix
RegisterCollision(reg, nt, original_name, module_name, function) ==
    LET r1 == IF ShouldRename(reg, nt, original_name)
              THEN RenameFirst(reg, nt, original_name)
              ELSE [registry |-> reg, name_tracker |-> nt]
        new_tool_name == Suffixed(original_name, module_name)
    IN  [registry |-> Put(r1.registry, new_tool_name,
                          Entry(function, module_name, original_name, TRUE)),
         name_tracker |-> [r1.name_tracker EXCEPT ![original_name] =
                              Append(@, <<module_name, new_tool_name>>)]]

\* _register_tool: the registry and the name tracker after the call
RegisterTool(reg, nt, original_name, module_name, function) ==
    IF IsCollision(reg, nt, original_name)
    THEN RegisterCollision(reg, nt, original_name, module_name, function)
    ELSE RegisterFirst(reg, nt, original_name, module_name, function)

-----------------------------------------------------------------------------
(* Discovery and validation *)

\* glob.glob(str(valid_dir / "*.py")) over the valid directories, in order
RECURSIVE RawModules(_, _, _)
RawModules(vd, f, order) ==
    IF vd = <<>> THEN <<>>
    ELSE LET d == Head(vd)
             here == SelectSeq(order, LAMBDA s : f[d][s].kind # "none")
         IN  [i \in 1..Len(here) |-> Path(d, here[i])] \o RawModules(Tail(vd), f, order)

\* Path(mod).resolve(): a link resolves to its target, outside the roots
Resolve(p, f) == IF f[p.dir][p.stem].kind = "link" THEN Path("outside", p.stem) ELSE p

\* any(mod_path.is_relative_to(valid_dir) for valid_dir in self.valid_dirs)
IsValidPath(rp, vd) == \E i \in 1..Len(vd) : rp.dir = vd[i]

\* a wrong Validate: the source is not parsed before the file is accepted
RECURSIVE ValidateNoParse(_, _, _)
ValidateNoParse(raw, f, vd) ==
    IF raw = <<>> THEN [okmods |-> <<>>, rejected |-> <<>>]
    ELSE LET mod == Head(raw)
             mod_path == Resolve(mod, f)
             rest == ValidateNoParse(Tail(raw), f, vd)
         IN  IF ~IsValidPath(mod_path, vd)
             THEN [rest EXCEPT !.rejected = <<<<mod, "path_traversal_attempt">>>> \o @]
             ELSE IF mod_path.stem = toolset THEN rest
             ELSE [rest EXCEPT !.okmods = <<mod_path>> \o @]

\* a wrong Validate: the reserved name is looked at only after the parse
RECURSIVE ValidateParseFirst(_, _, _)
ValidateParseFirst(raw, f, vd) ==
    IF raw = <<>> THEN [okmods |-> <<>>, rejected |-> <<>>]
    ELSE LET mod == Head(raw)
             mod_path == Resolve(mod, f)
             rest == ValidateParseFirst(Tail(raw), f, vd)
             text == f[mod.dir][mod.stem].content.text
         IN  IF ~IsValidPath(mod_path, vd)
             THEN [rest EXCEPT !.rejected = <<<<mod, "path_traversal_attempt">>>> \o @]
             ELSE IF text = "syntax_error"
             THEN [rest EXCEPT !.rejected = <<<<mod, "syntax_error">>>> \o @]
             ELSE IF text # "ok"
             THEN [rest EXCEPT !.rejected = <<<<mod, "read_error">>>> \o @]
             ELSE IF mod_path.stem = toolset THEN rest
             ELSE [rest EXCEPT !.okmods = <<mod_path>> \o @]

\* a wrong Validate: a rejection is put in front of the log, not at its end
RECURSIVE ValidateRejectInFront(_, _, _)
ValidateRejectInFront(raw, f, vd) ==
    IF raw = <<>> THEN [okmods |-> <<>>, rejected |-> <<>>]
    ELSE LET mod == Head(raw)
             mod_path == Resolve(mod, f)
             rest == ValidateRejectInFront(Tail(raw), f, vd)
             text == f[mod.dir][mod.stem].content.text
         IN  IF ~IsValidPath(mod_path, vd)
             THEN [rest EXCEPT !.rejected = @ \o <<<<mod, "path_traversal_attempt">>>>]
             ELSE IF mod_path.stem = toolset THEN rest
             ELSE IF text = "ok"
             THEN [rest EXCEPT !.okmods = <<mod_path>> \o @]
             ELSE IF text = "syntax_error"
             THEN [rest EXCEPT !.rejected = @ \o <<<<mod, "syntax_error">>>>]
             ELSE [rest EXCEPT !.rejected = @ \o <<<<mod, "read_error">>>>]

\* the validation loop: the accepted paths and the rejections, in scan order
RECURSIVE Validate(_, _, _)
Validate(raw, f, vd) ==
    IF raw = <<>> THEN [okmods |-> <<>>, rejected |-> <<>>]
    ELSE LET mod == Head(raw)
             mod_path == Resolve(mod, f)
             rest == Validate(Tail(raw), f, vd)
             text == f[mod.dir][mod.stem].content.text
         IN  IF ~IsValidPath(mod_path, vd)
             THEN [rest EXCEPT !.rejected = <<<<mod, "path_traversal_attempt">>>> \o @]
             ELSE IF mod_path.stem = toolset THEN rest
             ELSE IF text = "ok"
             THEN [rest EXCEPT !.okmods = <<mod_path>> \o @]
             ELSE IF text = "syntax_error"
             THEN [rest EXCEPT !.rejected = <<<<mod, "syntax_error">>>> \o @]
             ELSE [rest EXCEPT !.rejected = <<<<mod, "read_error">>>> \o @]

Discover(vd, f, order) == Validate(RawModules(vd, f, order), f, vd)

-----------------------------------------------------------------------------
(* State *)

KeysOf(reg, module_name) == {k \in DOMAIN reg : reg[k].source_module = module_name}

\* the executions whose objects are still referenced
LiveGens ==
    {registry[k].function.gen : k \in DOMAIN registry}
      \cup UNION {{loaded_mods[m][n].gen : n \in DOMAIN loaded_mods[m]} :
                    m \in DOMAIN loaded_mods}

\* objects made by one execution differ from every object made before
FreshGen == CHOOSE g \in 0..Cardinality(LiveGens) :
                g \notin LiveGens /\ \A h \in 0..(g - 1) : h \in LiveGens

NoPath == Path("none", <<>>)

Step(step, mod, name, gen, path) ==
    [step |-> step, mod |-> mod, name |-> name, gen |-> gen, path |-> path]

NoResult == [returned |-> FALSE]

\* the request before this one was not a reload_all, or files changed since
NoPrior == [stable |-> FALSE, okmods |-> <<>>, rejected |-> <<>>]

\* no use_proxy_tool or list_tools call since the last request began
NoReply == [kind |-> "none"]

\* the listing orders of a directory that are tried
Orders == {<<mx, my, mz, toolset>>, <<toolset, mz, my, mx>>}

\* what the module files hold when the server starts
InitContents == {CFoo, CFooBar}

\* what a file of the public root may be when the server starts
InitFiles(s) ==
    IF s = toolset THEN {NoFile, File(CFoo), File(CBad)}
    ELSE IF s = my THEN {NoFile, File(CFoo), File(CFooRaise)}
    ELSE IF s = mz THEN {File(CFoo), File(CBad)}
    ELSE {NoFile} \cup {File(c) : c \in InitContents}

Init ==
    /\ priv_exists \in BOOLEAN
    /\ \E pub \in [FileStems -> {NoFile} \cup {File(c) : c \in Contents}] :
         /\ \A s \in FileStems : pub[s] \in InitFiles(s)
         /\ fs = [d \in Roots |->
                    IF d = "modules" THEN pub ELSE [s \in FileStems |-> NoFile]]
    /\ dirorder \in Orders
    /\ valid_dirs = <<>>
    /\ registry = EmptyMap
    /\ name_tracker = EmptyMap
    /\ rejected_modules = <<>>
    /\ loaded_mods = EmptyMap
    /\ sys_modules = {}
    /\ okmods = <<>>
    /\ idx = 1
    /\ pending = <<>>
    /\ cur_mod = <<>>
    /\ old_tool_names = {}
    /\ pc = "boot"
    /\ op = "init"
    /\ result = NoResult
    /\ before = EmptyMap
    /\ prior = NoPrior
    /\ last = Step("none", <<>>, <<>>, 0, NoPath)
    /\ reply = NoReply
    /\ budget = MaxSteps

-----------------------------------------------------------------------------
(* The handler *)

\* self.valid_dirs: the public root, and the private root if it exists
ValidDirs(private_exists) ==
    IF private_exists THEN <<"modules", "private/modules">> ELSE <<"modules">>

\* __init__ up to the loading loop: the roots are fixed, the state is created
\* empty and the directories are scanned and validated
Construct ==
    /\ pc = "boot"
    /\ valid_dirs' = ValidDirs(priv_exists)
    /\ LET d == Discover(ValidDirs(priv_exists), fs, dirorder)
       IN  /\ okmods' = d.okmods
           /\ rejected_modules' = d.rejected
    /\ registry' = EmptyMap
    /\ name_tracker' = EmptyMap
    /\ loaded_mods' = EmptyMap
    /\ idx' = 1
    /\ pc' = "load"
    /\ op' = "init"
    /\ last' = Step("scan", <<>>, <<>>, 0, NoPath)
    /\ UNCHANGED <<fs, priv_exists, dirorder, sys_modules, pending, cur_mod,
                   old_tool_names, result, before, prior, reply, budget>>

\* a wrong ScanRoots: the roots are looked up again at every reload_all
ScanRootsRecomputed(vd, private_exists) == ValidDirs(private_exists)

\* the roots reload_all_modules scans: for valid_dir in self.valid_dirs, the
\* list made at construction, whatever exists on disk now
ScanRoots(vd, private_exists) == vd

\* reload_all_modules up to the loading loop: clear all state, scan and
\* validate again
ReloadAllBegin ==
    /\ pc = "idle"
    /\ budget > 0
    /\ budget' = budget - 1
    /\ LET d == Discover(ScanRoots(valid_dirs, priv_exists), fs, dirorder)
       IN  /\ okmods' = d.okmods
           /\ rejected_modules' = d.rejected
    /\ registry' = EmptyMap
    /\ name_tracker' = EmptyMap
    /\ loaded_mods' = EmptyMap
    /\ idx' = 1
    /\ pc' = "load"
    /\ op' = "reload_all"
    /\ result' = NoResult
    /\ before' = registry
    /\ prior' = IF op = "reload_all" /\ last.step \in {"loaded", "load_raised"}
                THEN [stable |-> TRUE, okmods |-> okmods, rejected |-> rejected_modules]
                ELSE NoPrior
    /\ reply' = NoReply
    /\ last' = Step("scan", <<>>, <<>>, 0, NoPath)
    /\ UNCHANGED <<fs, priv_exists, dirorder, valid_dirs, sys_modules, pending,
                   cur_mod, old_tool_names>>

\* the import of one accepted file: a new module object, executed.  In
\* reload_all a module already in sys.modules is first given to
\* importlib.reload, which looks the bare identifier up on sys.path; the roots
\* are not on sys.path (modules import their siblings as modules.<name>), so
\* that call raises and the except branch imports the file afresh, exactly as
\* the else branch and the startup loop do.
ImportFile(file, gen) == ExecModule(ModuleFromSpec(gen), file, gen)

\* one turn of the loading loop.  At startup the turn is inside try/except and
\* a failure is logged as import_error; in reload_all the execution is inside
\* no try, so the exception leaves reload_all_modules.
LoadNext ==
    /\ pc = "load"
    /\ idx <= Len(okmods)
    /\ LET mod_path == okmods[idx]
           mod_name == mod_path.stem
           g == FreshGen
           r == ImportFile(fs[mod_path.dir][mod_path.stem], g)
       IN  /\ sys_modules' = sys_modules \cup {mod_name}
           /\ IF ~r.raised
              THEN /\ loaded_mods' = Put(loaded_mods, mod_name, r.ns)
                   /\ pending' = CleanList(r.ns)
                   /\ cur_mod' = mod_name
                   /\ pc' = "register"
                   /\ last' = Step("load", mod_name, <<>>, g, mod_path)
                   /\ UNCHANGED <<rejected_modules, idx, result>>
              ELSE IF op = "init"
              THEN /\ rejected_modules' =
                          Append(rejected_modules, <<mod_path, "import_error">>)
                   /\ idx' = idx + 1
                   /\ last' = Step("load_rejected", mod_name, <<>>, g, mod_path)
                   /\ UNCHANGED <<loaded_mods, pending, cur_mod, pc, result>>
              ELSE /\ pc' = "idle"
                   /\ result' = [raised |-> "exception"]
                   /\ last' = Step("load_raised", mod_name, <<>>, g, mod_path)
                   /\ UNCHANGED <<loaded_mods, pending, cur_mod, rejected_modules, idx>>
    /\ UNCHANGED <<fs, priv_exists, dirorder, valid_dirs, registry, name_tracker,
                   okmods, old_tool_names, op, before, prior, reply, budget>>

\* one call of _register_tool from a registration loop
Register ==
    /\ pc = "register"
    /\ pending # <<>>
    /\ LET fn_name == Head(pending)
           r == RegisterTool(registry, name_tracker, fn_name, cur_mod,
                             loaded_mods[cur_mod][fn_name])
       IN  /\ registry' = r.registry
           /\ name_tracker' = r.name_tracker
           /\ last' = Step("register", cur_mod, fn_name, last.gen, NoPath)
    /\ pending' = Tail(pending)
    /\ UNCHANGED <<fs, priv_exists, dirorder, valid_dirs, rejected_modules,
                   loaded_mods, sys_modules, okmods, idx, cur_mod, old_tool_names,
                   pc, op, result, before, prior, reply, budget>>

\* a wrong ReloadReport: the advisory is attached to every report
ReloadReportAlwaysAdvise(reg, module_name, old_names) ==
    LET new_tool_names == KeysOf(reg, module_name)
    IN  [success |-> TRUE,
         reloaded |-> module_name,
         tools_added |-> new_tool_names \ old_names,
         tools_removed |-> old_names \ new_tool_names,
         suggestion |-> "Consider reload_all() to rebuild collision detection"]

\* the report of reload_module after a successful reload
ReloadReport(reg, module_name, old_names) ==
    LET new_tool_names == KeysOf(reg, module_name)
        tools_added == new_tool_names \ old_names
        tools_removed == old_names \ new_tool_names
        report == [success |-> TRUE,
                   reloaded |-> module_name,
                   tools_added |-> tools_added,
                   tools_removed |-> tools_removed]
    IN  IF tools_added # {} \/ tools_removed # {}
        THEN [success |-> TRUE,
              reloaded |-> module_name,
              tools_added |-> tools_added,
              tools_removed |-> tools_removed,
              suggestion |-> "Consider reload_all() to rebuild collision detection"]
        ELSE report

\* the end of a registration loop: the loading loop goes on with the next
\* module; reload_module reports what changed and returns
RegisterDone ==
    /\ pc = "register"
    /\ pending = <<>>
    /\ IF op = "reload_one"
       THEN /\ result' = ReloadReport(registry, cur_mod, old_tool_names)
            /\ pc' = "idle"
            /\ last' = Step("reload_one_done", cur_mod, <<>>, last.gen, NoPath)
            /\ UNCHANGED idx
       ELSE /\ idx' = idx + 1
            /\ pc' = "load"
            /\ last' = Step("registered", cur_mod, <<>>, 0, NoPath)
            /\ UNCHANGED result
    /\ UNCHANGED <<fs, priv_exists, dirorder, valid_dirs, registry, name_tracker,
                   rejected_modules, loaded_mods, sys_modules, okmods, pending,
                   cur_mod, old_tool_names, op, before, prior, reply, budget>>

\* the summary reload_all_modules returns
Summary(reg, mods) ==
    [summary |-> <<Cardinality(DOMAIN reg), Cardinality(DOMAIN mods)>>]

\* the end of the loading loop; reload_all_modules returns its summary
LoadDone ==
    /\ pc = "load"
    /\ idx > Len(okmods)
    /\ pc' = "idle"
    /\ result' = IF op = "init" THEN NoResult ELSE Summary(registry, loaded_mods)
    /\ last' = Step("loaded", <<>>, <<>>, 0, NoPath)
    /\ UNCHANGED <<fs, priv_exists, dirorder, valid_dirs, registry, name_tracker,
                   rejected_modules, loaded_mods, sys_modules, okmods, idx, pending,
                   cur_mod, old_tool_names, op, before, prior, reply, budget>>

\* calling a registered value with the arguments: a callable returns its
\* result or raises its own exception; a value that is not callable raises
\* TypeError
ToolCall(fn, outcome) ==
    IF ~fn.callable THEN [raised |-> TRUE, error |-> "TypeError", value |-> <<"none", fn>>]
    ELSE IF outcome = "raise"
    THEN [raised |-> TRUE, error |-> "tool", value |-> <<"exception", fn>>]
    ELSE [raised |-> FALSE, error |-> "none", value |-> <<"result", fn>>]

\* a wrong UseProxyTool: an unknown id is answered without the key list
UseProxyToolNoKeys(reg, tool_id, outcome) ==
    IF tool_id \notin DOMAIN reg
    THEN [raised |-> TRUE, error |-> "KeyError", available |-> {}, called |-> {},
          value |-> <<>>]
    ELSE LET proxy_fn == reg[tool_id]["function"]
             r == ToolCall(proxy_fn, outcome)
         IN  [raised |-> r.raised, error |-> r.error, available |-> {},
              called |-> {proxy_fn}, value |-> r.value]

\* a wrong UseProxyTool: an exception of the tool is caught and returned as
\* an ordinary result
UseProxyToolSwallow(reg, tool_id, outcome) ==
    IF tool_id \notin DOMAIN reg
    THEN [raised |-> TRUE, error |-> "KeyError", available |-> DOMAIN reg,
          called |-> {}, value |-> <<>>]
    ELSE LET proxy_fn == reg[tool_id]["function"]
             r == ToolCall(proxy_fn, outcome)
         IN  [raised |-> FALSE, error |-> "none", available |-> {},
              called |-> {proxy_fn}, value |-> r.value]

\* use_proxy_tool: KeyError naming the registry keys for an unknown id,
\* otherwise whatever the call of the registered function gives
UseProxyTool(reg, tool_id, outcome) ==
    IF tool_id \notin DOMAIN reg
    THEN [raised |-> TRUE, error |-> "KeyError", available |-> DOMAIN reg,
          called |-> {}, value |-> <<>>]
    ELSE LET proxy_fn == reg[tool_id]["function"]
             r == ToolCall(proxy_fn, outcome)
         IN  [raised |-> r.raised, error |-> r.error, available |-> {},
              called |-> {proxy_fn}, value |-> r.value]

\* list_tools: every registry key with the docstring of its entry
ListTools(reg) == [name \in DOMAIN reg |-> reg[name].docstring]

\* the server answers requests once the handler is constructed; the handler
\* takes no lock, so a request served while a reload is between two of its
\* steps reads the registry as that step left it
Serving == pc = "idle" \/ (pc \in {"load", "register"} /\ op # "init")

\* the MCP tool use_proxy_tool; only a registered callable has a choice of
\* outcomes
Invoke(tool_id, outcome) ==
    /\ Serving
    /\ outcome = "raise" => (tool_id \in DOMAIN registry /\ registry[tool_id].function.callable)
    /\ budget > 0
    /\ budget' = budget - 1
    /\ reply' = [kind |-> "invoke", during |-> (pc # "idle"), tool_id |-> tool_id,
                 outcome |-> outcome,
                 answer |-> UseProxyTool(registry, tool_id, outcome)]
    /\ UNCHANGED <<fs, priv_exists, dirorder, handler_vars, last>>

\* the MCP tool list_proxy_tools
List ==
    /\ Serving
    /\ budget > 0
    /\ budget' = budget - 1
    /\ reply' = [kind |-> "list", during |-> (pc # "idle"), tool_id |-> <<>>,
                 outcome |-> "return", answer |-> ListTools(registry)]
    /\ UNCHANGED <<fs, priv_exists, dirorder, handler_vars, last>>

\* the tool ids and outcomes that are tried
InvokeIds == {foo, os_name}
Outcomes == {"return", "raise"}

\* the directories in which valid_dir / f"{module_name}.py" exists, in order
Candidates(vd, f, module_name) ==
    SelectSeq(vd, LAMBDA d : f[d][module_name].kind # "none")

\* a wrong NotLoaded: the request is reported as done
NotLoadedSuccess == [success |-> TRUE, reloaded |-> "nothing"]

\* what reload_module returns for a module that is not loaded
NotLoaded == [success |-> FALSE, error |-> "Module not currently loaded"]

\* what the except branch of reload_module returns
ReloadFailure ==
    [success |-> FALSE,
     error |-> "Failed to reload",
     traceback |-> "traceback",
     note |-> "Old version of module is still loaded"]

\* a wrong ReloadTry: the old tools are removed before the module is executed
ReloadTryRemoveFirst(reg, module_name, ns, file, gen) ==
    LET r == ExecModule(ns, file, gen)
    IN  [raised |-> r.raised, ns |-> r.ns,
         registry |-> Without(reg, KeysOf(reg, module_name))]

\* the try block of reload_module once the file is found: the existing module
\* object is executed again, in place; only if that succeeds are the old
\* tools of the module removed from the registry
ReloadTry(reg, module_name, ns, file, gen) ==
    LET r == ExecModule(ns, file, gen)
    IN  [raised |-> r.raised, ns |-> r.ns,
         registry |-> IF r.raised THEN reg ELSE Without(reg, KeysOf(reg, module_name))]

\* a wrong ModsAfterReload: a module whose reload failed is unloaded
ModsAfterReloadDropFailed(mods, module_name, r) ==
    IF r.raised THEN Without(mods, {module_name})
    ELSE [mods EXCEPT ![module_name] = r.ns]

\* self.loaded_mods after exec_module ran on the module object it holds: the
\* same keys, the namespace of the module as the execution left it
ModsAfterReload(mods, module_name, r) == [mods EXCEPT ![module_name] = r.ns]

\* reload_module up to the registration loop
ReloadOne(module_name) ==
    /\ pc = "idle"
    /\ budget > 0
    /\ budget' = budget - 1
    /\ op' = "reload_one"
    /\ before' = registry
    /\ prior' = NoPrior
    /\ reply' = NoReply
    /\ IF module_name \notin DOMAIN loaded_mods
       THEN /\ result' = NotLoaded
            /\ last' = Step("reload_one_not_loaded", module_name, <<>>, 0, NoPath)
            /\ UNCHANGED <<registry, loaded_mods, pending, cur_mod, old_tool_names, pc>>
       ELSE LET found == Candidates(valid_dirs, fs, module_name)
            IN  IF found = <<>>
                THEN /\ result' = ReloadFailure
                     /\ last' = Step("reload_one_not_found", module_name, <<>>, 0, NoPath)
                     /\ UNCHANGED <<registry, loaded_mods, pending, cur_mod,
                                    old_tool_names, pc>>
                ELSE LET mod_path == Path(Head(found), module_name)
                         g == FreshGen
                         r == ReloadTry(registry, module_name, loaded_mods[module_name],
                                        fs[mod_path.dir][module_name], g)
                     IN  /\ loaded_mods' = ModsAfterReload(loaded_mods, module_name, r)
                         /\ registry' = r.registry
                         /\ IF r.raised
                            THEN /\ result' = ReloadFailure
                                 /\ last' = Step("reload_one_raised", module_name, <<>>,
                                                 g, Resolve(mod_path, fs))
                                 /\ UNCHANGED <<pending, cur_mod, old_tool_names, pc>>
                            ELSE /\ old_tool_names' = KeysOf(registry, module_name)
                                 /\ pending' = CleanListReload(r.ns)
                                 /\ cur_mod' = module_name
                                 /\ pc' = "register"
                                 /\ result' = NoResult
                                 /\ last' = Step("reload_one_executed", module_name, <<>>,
                                                 g, Resolve(mod_path, fs))
    /\ UNCHANGED <<fs, priv_exists, dirorder, valid_dirs, name_tracker,
                   rejected_modules, sys_modules, okmods, idx>>

-----------------------------------------------------------------------------
(* The filesystem, changed from outside between two requests *)

WriteFile(d, s, c) ==
    /\ pc = "idle"
    /\ budget > 0
    /\ d = "private/modules" => priv_exists
    /\ fs[d][s] # File(c)
    /\ fs' = [fs EXCEPT ![d][s] = File(c)]
    /\ budget' = budget - 1
    /\ last' = Step("fs", <<>>, <<>>, 0, NoPath)
    /\ reply' = NoReply
    /\ UNCHANGED <<priv_exists, dirorder, handler_vars>>

RemoveFile(d, s) ==
    /\ pc = "idle"
    /\ budget > 0
    /\ fs[d][s] # NoFile
    /\ fs' = [fs EXCEPT ![d][s] = NoFile]
    /\ budget' = budget - 1
    /\ last' = Step("fs", <<>>, <<>>, 0, NoPath)
    /\ reply' = NoReply
    /\ UNCHANGED <<priv_exists, dirorder, handler_vars>>

LinkFile(d, s, c) ==
    /\ pc = "idle"
    /\ budget > 0
    /\ d = "private/modules" => priv_exists
    /\ fs[d][s] # Link(c)
    /\ fs' = [fs EXCEPT ![d][s] = Link(c)]
    /\ budget' = budget - 1
    /\ last' = Step("fs", <<>>, <<>>, 0, NoPath)
    /\ reply' = NoReply
    /\ UNCHANGED <<priv_exists, dirorder, handler_vars>>

\* what the private root may hold under the stem x when it is created
PrivateSeeds == {NoFile, File(CFoo)}

\* the private root is created, empty or already holding a module file
CreatePrivateRoot(f) ==
    /\ pc = "idle"
    /\ budget > 0
    /\ ~priv_exists
    /\ priv_exists' = TRUE
    /\ fs' = [fs EXCEPT !["private/modules"][mx] = f]
    /\ budget' = budget - 1
    /\ last' = Step("fs", <<>>, <<>>, 0, NoPath)
    /\ reply' = NoReply
    /\ UNCHANGED <<dirorder, handler_vars>>

Next ==
    \/ Construct
    \/ ReloadAllBegin
    \/ LoadNext
    \/ Register
    \/ RegisterDone
    \/ LoadDone
    \/ \E m \in FileStems : ReloadOne(m)
    \/ \E tool_id \in InvokeIds, outcome \in Outcomes : Invoke(tool_id, outcome)
    \/ List
    \/ \E d \in Roots : \E s \in StemsIn(d), c \in ContentsIn(d) : WriteFile(d, s, c)
    \/ \E d \in Roots : \E s \in StemsIn(d) : RemoveFile(d, s)
    \/ \E c \in OutsideContents, s \in Stems : LinkFile("modules", s, c)
    \/ \E f \in PrivateSeeds : CreatePrivateRoot(f)

Spec == Init /\ [][Next]_vars

-----------------------------------------------------------------------------
(* The claims *)

\* the key the specification prescribes for a collided name
KeyFor(n, m) == n \o <<"_">> \o m

\* the names a file binds when it runs to its end
BoundNames(file) ==
    IF file.kind = "none" \/ file.content.text # "ok" THEN {}
    ELSE {file.content.body[i].name :
            i \in {j \in 1..Len(file.content.body) : file.content.body[j].stmt # "raise"}}

\* the specification's eligible name: all lowercase, no leading underscore,
\* not a dunder name
Eligible(n) ==
    /\ n # <<>>
    /\ \A i \in 1..Len(n) : n[i] \in Lower \cup {"_"}
    /\ \E i \in 1..Len(n) : n[i] \in Lower
    /\ n[1] # "_"
    /\ ~\E i \in 1..(Len(n) - 1) : n[i] = "_" /\ n[i + 1] = "_"

\* the eligible callables of a file: the eligible names it binds to callables
\* when it runs to its end
DefinedNames(file) ==
    IF file.kind = "none" \/ file.content.text # "ok" THEN {}
    ELSE {file.content.body[i].name :
            i \in {j \in 1..Len(file.content.body) :
                      /\ file.content.body[j].stmt = "def"
                      /\ Eligible(file.content.body[j].name)}}

\* a file that can be read, parses and runs to its end
LoadsCleanly(file) ==
    /\ file.kind = "file"
    /\ file.content.text = "ok"
    /\ \A i \in 1..Len(file.content.body) : file.content.body[i].stmt # "raise"

\* the file reload_module(m) executes
ReloadedFile(m) == fs[Head(Candidates(valid_dirs, fs, m))][m]

\* C1: whenever two different modules both have a registered entry for the
\* same original name, each of the two entries sits under name_<module> with
\* the collision flag set, and the bare name is not a registry key.
C1_BothSuffixed ==
    \A k1, k2 \in DOMAIN registry :
        (/\ registry[k1].original_name = registry[k2].original_name
         /\ registry[k1].source_module # registry[k2].source_module)
        => /\ k1 = KeyFor(registry[k1].original_name, registry[k1].source_module)
           /\ registry[k1].had_collision
           /\ registry[k1].original_name \notin DOMAIN registry

\* reached: a registration has just left two modules with entries for one name
C1_Witness ==
    /\ last.step = "register"
    /\ \E k1, k2 \in DOMAIN registry :
         /\ registry[k1].original_name = last.name
         /\ registry[k2].original_name = last.name
         /\ registry[k1].source_module # registry[k2].source_module
         /\ registry[k2].source_module = last.mod

\* C2: a registration of a name that has no NameTracker entry creates the
\* entry under exactly the bare name, with the collision flag false and the
\* registered callable, changes no other key, and makes the name's history
\* the single pair (module, name).
C2_FirstSighting ==
    [][(pc = "register" /\ pending # <<>> /\ pending' # pending
          /\ Head(pending) \notin DOMAIN name_tracker)
         => /\ DOMAIN registry' = DOMAIN registry \cup {Head(pending)}
            /\ \A k \in DOMAIN registry \ {Head(pending)} : registry'[k] = registry[k]
            /\ registry'[Head(pending)].function = loaded_mods[cur_mod][Head(pending)]
            /\ registry'[Head(pending)].source_module = cur_mod
            /\ registry'[Head(pending)].original_name = Head(pending)
            /\ registry'[Head(pending)].had_collision = FALSE
            /\ name_tracker'[Head(pending)] = <<<<cur_mod, Head(pending)>>>>]_vars

\* reached: a name has just been registered for the first time
C2_Witness ==
    /\ last.step = "register"
    /\ last.name \in DOMAIN registry
    /\ registry[last.name].had_collision = FALSE
    /\ name_tracker[last.name] = <<<<last.mod, last.name>>>>

\* C3: when a module registers a name for which two other modules already
\* hold the suffixed entries, its entry is created under name_<module> and
\* the two existing entries keep their keys, callables and metadata.
C3_ThirdDirect ==
    [][(pc = "register" /\ pending # <<>> /\ pending' # pending)
         => \A a, b \in Stems \ {cur_mod} :
              (/\ a # b
               /\ KeyFor(Head(pending), a) \in DOMAIN registry
               /\ KeyFor(Head(pending), b) \in DOMAIN registry
               /\ registry[KeyFor(Head(pending), a)].source_module = a
               /\ registry[KeyFor(Head(pending), b)].source_module = b)
              => /\ DOMAIN registry' = DOMAIN registry \cup {KeyFor(Head(pending), cur_mod)}
                 /\ registry'[KeyFor(Head(pending), a)] = registry[KeyFor(Head(pending), a)]
                 /\ registry'[KeyFor(Head(pending), b)] = registry[KeyFor(Head(pending), b)]
                 /\ registry'[KeyFor(Head(pending), cur_mod)].source_module = cur_mod
                 /\ registry'[KeyFor(Head(pending), cur_mod)].function =
                        loaded_mods[cur_mod][Head(pending)]]_vars

\* reached: a third module has just registered a name two others collided on
C3_Witness ==
    /\ last.step = "register"
    /\ last.name \in DOMAIN name_tracker
    /\ Len(name_tracker[last.name]) = 3
    /\ name_tracker[last.name][3][1] = last.mod
    /\ \A m \in Stems :
         /\ KeyFor(last.name, m) \in DOMAIN registry
         /\ registry[KeyFor(last.name, m)].source_module = m

\* C4: a reload_module(m) that fails while executing the module, or because
\* the file is gone, leaves the registry keys of m and the callable under
\* each of them as they were, and returns a failure with an error and a note.
C4_FailedReloadKeepsTools ==
    [][(pc = "idle" /\ last'.step \in {"reload_one_raised", "reload_one_not_found"})
         => /\ KeysOf(registry', last'.mod) = KeysOf(registry, last'.mod)
            /\ \A k \in KeysOf(registry, last'.mod) :
                 registry'[k].function = registry[k].function
            /\ result'.success = FALSE
            /\ "error" \in DOMAIN result'
            /\ "note" \in DOMAIN result']_vars

\* reached: the reload of a module that has tools has just failed in execution
C4_Witness ==
    /\ last.step = "reload_one_raised"
    /\ KeysOf(registry, last.mod) # {}
    /\ "note" \in DOMAIN result

\* C5: a reload_module(m) that fails part-way through executing the new
\* source leaves every top-level binding of the module as it was.
C5_FailedReloadKeepsNamespace ==
    [][(pc = "idle" /\ last'.step = "reload_one_raised")
         => loaded_mods'[last'.mod] = loaded_mods[last'.mod]]_vars

\* C6: after a successful reload_module(m) of a file that defines exactly one
\* eligible callable fewer than m had registered, removed is exactly the key
\* of the dropped tool, added is empty, the dropped key is gone from the
\* registry and the entries of other modules are as before.
C6_OneFewer ==
    (last.step = "reload_one_done")
    => LET m == last.mod
           now == DefinedNames(ReloadedFile(m))
           was == {before[k].original_name : k \in KeysOf(before, m)}
           dropped == {k \in KeysOf(before, m) : before[k].original_name \notin now}
       IN  (now \subseteq was /\ Cardinality(was \ now) = 1)
           => /\ result.tools_removed = dropped
              /\ result.tools_added = {}
              /\ dropped \cap DOMAIN registry = {}
              /\ \A k \in DOMAIN before \ KeysOf(before, m) :
                   k \in DOMAIN registry /\ registry[k] = before[k]

\* C7: after a successful reload_module(m) every entry of m is bound to a
\* callable made by the new execution, and every callable the file defines
\* has an entry of m bound to it.
C7_ReloadRebinds ==
    (last.step = "reload_one_done")
    => /\ \A k \in KeysOf(registry, last.mod) : registry[k].function.gen = last.gen
       /\ \A n \in DefinedNames(ReloadedFile(last.mod)) :
            \E k \in KeysOf(registry, last.mod) :
              /\ registry[k].original_name = n
              /\ registry[k].function = loaded_mods[last.mod][n]

\* C8: every execution of module code reads a file whose resolved path lies
\* under one of the configured roots.
C8_ExecutedUnderRoot ==
    (last.path # NoPath) => \E i \in 1..Len(valid_dirs) : last.path.dir = valid_dirs[i]

\* C9: at startup and in reload_all, an accepted candidate that raises when
\* executed is logged with import_error, nothing is raised to the caller, and
\* when the handler is done every accepted candidate that runs cleanly is
\* loaded with its tools registered.
C9_BadModuleIsolated ==
    /\ (last.step \in {"load_rejected", "load_raised"})
       => /\ "raised" \notin DOMAIN result
          /\ rejected_modules # <<>>
          /\ rejected_modules[Len(rejected_modules)] = <<last.path, "import_error">>
    /\ (last.step \in {"loaded", "load_raised"})
       => \A i \in 1..Len(okmods) :
            LoadsCleanly(fs[okmods[i].dir][okmods[i].stem])
            => /\ okmods[i].stem \in DOMAIN loaded_mods
               /\ \A n \in DefinedNames(fs[okmods[i].dir][okmods[i].stem]) :
                    \E k \in KeysOf(registry, okmods[i].stem) :
                      registry[k].original_name = n

ValidDirSet == {valid_dirs[i] : i \in 1..Len(valid_dirs)}

\* why a file that does not load cleanly has to be rejected
RejectReason(file) ==
    IF file.kind = "link" THEN "path_traversal_attempt"
    ELSE IF file.content.text = "syntax_error" THEN "syntax_error"
    ELSE IF file.content.text = "unreadable" THEN "read_error"
    ELSE "import_error"

\* what a scan of the current files has to reject
Rejectable ==
    {<<Path(p[1], p[2]), RejectReason(fs[p[1]][p[2]])>> :
        p \in {q \in ValidDirSet \X Stems :
                 fs[q[1]][q[2]].kind # "none" /\ ~LoadsCleanly(fs[q[1]][q[2]])}}

\* C10: after reload_all every registry entry comes from a file that is now
\* under a root and loads cleanly, every tool of such a file is registered,
\* and the RejectionLog holds exactly the files the current scan rejects.
C10_ReloadAllReflectsFiles ==
    (op = "reload_all" /\ last.step \in {"loaded", "load_raised"})
    => /\ \A k \in DOMAIN registry :
            \E d \in ValidDirSet :
              /\ LoadsCleanly(fs[d][registry[k].source_module])
              /\ registry[k].original_name
                   \in BoundNames(fs[d][registry[k].source_module])
       /\ \A d \in ValidDirSet, s \in Stems :
            LoadsCleanly(fs[d][s])
            => \A n \in DefinedNames(fs[d][s]) :
                 \E k \in KeysOf(registry, s) : registry[k].original_name = n
       /\ {rejected_modules[i] : i \in 1..Len(rejected_modules)} = Rejectable
       /\ Len(rejected_modules) = Cardinality(Rejectable)

\* the files under a root that load cleanly and define the eligible callable n
DefinersOf(n) ==
    {q \in ValidDirSet \X Stems :
        LoadsCleanly(fs[q[1]][q[2]]) /\ n \in DefinedNames(fs[q[1]][q[2]])}

\* n had a suffixed or flagged entry when the last request began
CollidedBefore(n) ==
    \E k \in DOMAIN before :
        before[k].original_name = n /\ (before[k].had_collision \/ k # n)

\* C11: after reload_all, a name that had a collided or suffixed entry before
\* the reload and that exactly one module of the current files defines is
\* registered under the bare name with the collision flag false.
C11_HistoryDiscarded ==
    (op = "reload_all" /\ last.step \in {"loaded", "load_raised"})
    => \A n \in {foo, bar} :
         (CollidedBefore(n) /\ Cardinality(DefinersOf(n)) = 1)
         => /\ n \in DOMAIN registry
            /\ registry[n].original_name = n
            /\ registry[n].had_collision = FALSE

\* C12: use_proxy_tool with an id that is not a registry key raises the
\* not-found error, the error lists exactly the keys of the registry at the
\* time of the call, no registered function is called and the handler's
\* state is untouched.
C12_NotFoundListsKeys ==
    [][(reply'.kind = "invoke" /\ budget' # budget
          /\ reply'.tool_id \notin DOMAIN registry)
         => /\ reply'.answer.raised
            /\ reply'.answer.error = "KeyError"
            /\ reply'.answer.available = DOMAIN registry
            /\ reply'.answer.called = {}
            /\ registry' = registry]_vars

\* reached: an unknown id was tried while the registry had keys to list
C12_Witness ==
    /\ pc = "idle"
    /\ reply.kind = "invoke"
    /\ ~reply.during
    /\ reply.tool_id \notin DOMAIN registry
    /\ reply.answer.error = "KeyError"
    /\ reply.answer.available = DOMAIN registry
    /\ DOMAIN registry # {}

\* C13: use_proxy_tool with a registry key calls the value bound under that
\* key and nothing else, gives back exactly what that call returned or
\* raised, and leaves the registry, the name tracker, the loaded modules and
\* the rejection log as they were.
C13_DispatchCallsBound ==
    [][(reply'.kind = "invoke" /\ budget' # budget
          /\ reply'.tool_id \in DOMAIN registry)
         => LET fn == registry[reply'.tool_id].function
                r == ToolCall(fn, reply'.outcome)
            IN  /\ reply'.answer.called = {fn}
                /\ reply'.answer.raised = r.raised
                /\ reply'.answer.error = r.error
                /\ reply'.answer.value = r.value
                /\ (fn.callable /\ reply'.outcome = "raise")
                     => (reply'.answer.raised /\ reply'.answer.value = <<"exception", fn>>)
                /\ (fn.callable /\ reply'.outcome = "return")
                     => (~reply'.answer.raised /\ reply'.answer.value = <<"result", fn>>)
                /\ registry' = registry
                /\ name_tracker' = name_tracker
                /\ loaded_mods' = loaded_mods
                /\ rejected_modules' = rejected_modules]_vars

\* reached: a registered tool was called and raised its own exception
C13_Witness ==
    /\ pc = "idle"
    /\ reply.kind = "invoke"
    /\ ~reply.during
    /\ reply.tool_id \in DOMAIN registry
    /\ reply.outcome = "raise"
    /\ reply.answer.raised
    /\ reply.answer.called = {registry[reply.tool_id].function}

\* C14: the value bound in every registry entry is callable; a lowercase,
\* not underscore-prefixed top-level name bound to something that is not
\* callable has no entry.
C14_EntriesCallable ==
    \A k \in DOMAIN registry : registry[k].function.callable

\* C15: no registry entry has an original name that begins with an
\* underscore, whichever of startup, reload_all and reload_module made it.
C15_NoUnderscoreNames ==
    \A k \in DOMAIN registry : ~StartsWithUnderscore(registry[k].original_name)

\* a scan of startup or reload_all is finished and the files are as scanned
Scanned ==
    /\ op \in {"init", "reload_all"}
    /\ pc \in {"load", "register"} \/ last.step \in {"loaded", "load_raised"}

\* a regular file whose source does not parse
IsMalformed(file) == file.kind = "file" /\ file.content.text = "syntax_error"

RejectedSet == {rejected_modules[i] : i \in 1..Len(rejected_modules)}
AcceptedSet == {okmods[i] : i \in 1..Len(okmods)}

\* what a finished scan has done with the malformed files
MalformedHandled ==
    Scanned =>
      \A d \in ValidDirSet, s \in Stems :
        IsMalformed(fs[d][s])
        => /\ <<Path(d, s), "syntax_error">> \in RejectedSet
           /\ Path(d, s) \notin AcceptedSet
           /\ ((\A e \in ValidDirSet : Path(e, s) \notin AcceptedSet)
                => (s \notin DOMAIN loaded_mods /\ KeysOf(registry, s) = {}))

\* C16: a scanned file whose source does not parse is in the rejection log
\* with reason syntax_error, is not among the accepted files, gives the
\* registry and the loaded modules nothing, and no step executes it: the
\* loading loop never runs it and a reload_module of it changes no binding.
C16_MalformedRejected ==
    [][/\ MalformedHandled'
       /\ ((last'.step \in {"load", "load_rejected", "load_raised"} /\ pc = "load")
           => ~IsMalformed(fs[last'.path.dir][last'.path.stem]))
       /\ ((last'.step = "reload_one_raised" /\ pc = "idle"
             /\ Candidates(valid_dirs, fs, last'.mod) # <<>>
             /\ IsMalformed(ReloadedFile(last'.mod)))
           => loaded_mods' = loaded_mods)]_vars

\* reached: reload_all has finished with a malformed file in its rejection log
C16_Witness ==
    /\ op = "reload_all"
    /\ last.step = "loaded"
    /\ \E d \in ValidDirSet, s \in Stems :
         /\ IsMalformed(fs[d][s])
         /\ <<Path(d, s), "syntax_error">> \in RejectedSet
         /\ s \notin DOMAIN loaded_mods

\* what a finished scan has done with a file named toolset.py under a root
ReservedSkipped ==
    /\ toolset \notin DOMAIN loaded_mods
    /\ KeysOf(registry, toolset) = {}
    /\ Scanned =>
         \A d \in ValidDirSet :
           (fs[d][toolset].kind = "file")
           => /\ Path(d, toolset) \notin AcceptedSet
              /\ \A r \in RejectedSet : r[1] # Path(d, toolset)

\* C17: a file under a root whose stem is the reserved name toolset is, at
\* startup and at every reload_all, neither loaded nor put in the rejection
\* log, whether or not its source parses, and reload_module("toolset")
\* answers that the module is not loaded.
C17_ReservedSkipped ==
    [][/\ ReservedSkipped'
       /\ (pc = "idle" /\ op' = "reload_one" /\ budget' # budget
             /\ reply'.kind = "none" /\ last'.step # "fs" /\ last'.mod = toolset)
           => /\ last'.step = "reload_one_not_loaded"
              /\ result' = NotLoaded
              /\ registry' = registry]_vars

\* reached: with a well-formed toolset.py under the public root since
\* startup, reload_module("toolset") has just been answered
C17_Witness ==
    /\ last.step = "reload_one_not_loaded"
    /\ last.mod = toolset
    /\ fs["modules"][toolset] = File(CFoo)
    /\ result = NotLoaded
    /\ rejected_modules = <<>>

\* C18: every call of _register_tool adds exactly one registry key, and the
\* entry of every other (module, original name) pair is still in the
\* registry afterwards, under some key, with its callable.
C18_RegistrationLosesNothing ==
    [][(pc = "register" /\ pending # <<>> /\ pending' # pending)
         => /\ Cardinality(DOMAIN registry') = Cardinality(DOMAIN registry) + 1
            /\ \A k \in DOMAIN registry :
                 (<<registry[k].source_module, registry[k].original_name>>
                    # <<cur_mod, Head(pending)>>)
                 => \E k2 \in DOMAIN registry' :
                      /\ registry'[k2].source_module = registry[k].source_module
                      /\ registry'[k2].original_name = registry[k].original_name
                      /\ registry'[k2].function = registry[k].function]_vars

\* what the call recorded in reply gives when it is served from registry reg
AnswerFrom(reg) ==
    IF reply.kind = "list" THEN ListTools(reg)
    ELSE UseProxyTool(reg, reply.tool_id, reply.outcome)

\* C19: a use_proxy_tool or list_tools call served while reload_all or
\* reload_module is running is answered from the complete registry of before
\* the reload or from the complete registry of after it.
C19_DispatchSeesWholeRegistry ==
    (pc = "idle" /\ reply.kind # "none" /\ reply.during)
    => (reply.answer = AnswerFrom(before) \/ reply.answer = AnswerFrom(registry))

\* a step that is a call of reload_module
ReloadOneStep ==
    /\ pc = "idle"
    /\ op' = "reload_one"
    /\ budget' # budget
    /\ reply'.kind = "none"
    /\ last'.step # "fs"

\* C20: reload_module(m) for a module that is not loaded returns the failure
\* at once and leaves the registry, the name tracker, the loaded modules,
\* their namespaces and the rejection log as they were.
C20_NotLoadedFailsUntouched ==
    [][(ReloadOneStep /\ last'.mod \notin DOMAIN loaded_mods)
         => /\ last'.step = "reload_one_not_loaded"
            /\ last'.path = NoPath
            /\ result'.success = FALSE
            /\ "error" \in DOMAIN result'
            /\ pc' = "idle"
            /\ registry' = registry
            /\ name_tracker' = name_tracker
            /\ loaded_mods' = loaded_mods
            /\ rejected_modules' = rejected_modules]_vars

\* reached: reload_module was asked for a module whose file was rejected by
\* the last scan, while other modules have tools
C20_Witness ==
    /\ last.step = "reload_one_not_loaded"
    /\ result = NotLoaded
    /\ DOMAIN registry # {}
    /\ \E r \in RejectedSet : r[1].stem = last.mod

\* the reasons a rejection can carry
Reasons == {"path_traversal_attempt", "syntax_error", "read_error", "import_error"}

\* the file at root d with stem s is in the rejection log with a reason
InRejectionLog(d, s) ==
    \E r \in RejectedSet : r[1] = Path(d, s) /\ r[2] \in Reasons

\* C21: after startup and after each reload_all every scanned file with a
\* stem other than the reserved one is loaded or is in the rejection log
\* with a reason, never both and never neither.
C21_NoSilentFailure ==
    (op \in {"init", "reload_all"} /\ last.step \in {"loaded", "load_raised"})
    => \A d \in ValidDirSet, s \in Stems :
         (fs[d][s].kind # "none")
         => ((s \in DOMAIN loaded_mods) # InRejectionLog(d, s))

\* C22: on every step other than the start of a reload_all the name tracker
\* keeps every name and every history entry it had (an entry keeps its
\* module, its key may be rewritten by the retroactive rename), and for a
\* name that already has a tracker entry no entry is created under the bare
\* key: if the bare key is in the registry afterwards it was there before,
\* with the same entry.
C22_SuffixesPermanent ==
    [][(last'.step # "scan")
         => /\ DOMAIN name_tracker \subseteq DOMAIN name_tracker'
            /\ \A n \in DOMAIN name_tracker :
                 /\ Len(name_tracker'[n]) >= Len(name_tracker[n])
                 /\ \A i \in 1..Len(name_tracker[n]) :
                      name_tracker'[n][i][1] = name_tracker[n][i][1]
                 /\ (n \in DOMAIN registry')
                      => (n \in DOMAIN registry /\ registry'[n] = registry[n])]_vars

\* reached: reload_module has registered again a name whose bare key it had
\* just removed; the name came back under a suffixed key and the bare key is
\* still free
C22_Witness ==
    /\ op = "reload_one"
    /\ last.step = "reload_one_done"
    /\ \E n \in DOMAIN name_tracker :
         /\ n \in DOMAIN before
         /\ before[n].source_module = last.mod
         /\ n \notin DOMAIN registry
         /\ Len(name_tracker[n]) >= 2
         /\ Suffixed(n, last.mod) \in DOMAIN registry

\* a call of _register_tool that renames the first occupant of Head(pending)
RenameStep ==
    /\ pc = "register"
    /\ pending # <<>>
    /\ pending' # pending
    /\ IsCollision(registry, name_tracker, Head(pending))
    /\ ShouldRename(registry, name_tracker, Head(pending))

\* C23: the retroactive rename changes only the key and the collision flag of
\* the first occupant: the entry under n_<first module> has the callable,
\* description, originating module and original name of the entry that was
\* under n, its flag is set, n is no longer a key, the first tracker pair
\* holds the new key and no other entry is touched; the call of
\* _register_tool that renames leaves the registry and the tracker so.
C23_RenameKeepsEntry ==
    [][RenameStep
         => LET n == Head(pending)
                first_module == name_tracker[n][1][1]
                new_first_name == KeyFor(n, first_module)
                r == RenameFirst(registry, name_tracker, n)
            IN  /\ new_first_name \in DOMAIN r.registry
                /\ r.registry[new_first_name].function = registry[n].function
                /\ r.registry[new_first_name].docstring = registry[n].docstring
                /\ r.registry[new_first_name].source_module = registry[n].source_module
                /\ r.registry[new_first_name].original_name = registry[n].original_name
                /\ r.registry[new_first_name].had_collision
                /\ n \notin DOMAIN r.registry
                /\ r.name_tracker[n][1] = <<first_module, new_first_name>>
                /\ \A k \in DOMAIN registry \ {n, new_first_name} :
                     k \in DOMAIN r.registry /\ r.registry[k] = registry[k]
                /\ n \notin DOMAIN registry'
                /\ name_tracker'[n][1] = <<first_module, new_first_name>>
                /\ new_first_name \in DOMAIN registry'
                /\ (first_module # cur_mod)
                     => registry'[new_first_name] = r.registry[new_first_name]]_vars

\* reached: the second module defining foo has just been registered and the
\* first occupant, which held the bare key, now sits under its suffixed key
C23_Witness ==
    /\ last.step = "register"
    /\ last.name = foo
    /\ foo \notin DOMAIN registry
    /\ Len(name_tracker[foo]) = 2
    /\ name_tracker[foo][1][1] # last.mod
    /\ name_tracker[foo][1][2] = KeyFor(foo, name_tracker[foo][1][1])
    /\ KeyFor(foo, name_tracker[foo][1][1]) \in DOMAIN registry
    /\ registry[KeyFor(foo, name_tracker[foo][1][1])].source_module
         = name_tracker[foo][1][1]
    /\ registry[KeyFor(foo, name_tracker[foo][1][1])].had_collision

\* a call of _register_tool for a name whose first occupant held the bare key
\* and whose bare entry is gone from the registry
BareGoneStep ==
    /\ pc = "register"
    /\ pending # <<>>
    /\ pending' # pending
    /\ Head(pending) \in DOMAIN name_tracker
    /\ name_tracker[Head(pending)][1][2] = Head(pending)
    /\ Head(pending) \notin DOMAIN registry

\* C24: when the first occupant of n held the bare key and that entry has
\* been removed, a registration of n renames nothing, leaves the first tracker
\* pair recording the bare name and registers the newcomer under n_<module>
\* with the collision flag set; the bare key is not created.
C24_NoRenameWhenBareGone ==
    [][BareGoneStep
         => LET n == Head(pending)
                new_tool_name == KeyFor(n, cur_mod)
            IN  /\ name_tracker'[n][1] = name_tracker[n][1]
                /\ name_tracker'[n][1][2] = n
                /\ name_tracker'[n] = Append(name_tracker[n], <<cur_mod, new_tool_name>>)
                /\ DOMAIN registry' = DOMAIN registry \cup {new_tool_name}
                /\ n \notin DOMAIN registry'
                /\ registry'[new_tool_name].source_module = cur_mod
                /\ registry'[new_tool_name].original_name = n
                /\ registry'[new_tool_name].function = loaded_mods[cur_mod][n]
                /\ registry'[new_tool_name].had_collision
                /\ \A k \in DOMAIN registry \ {new_tool_name} :
                     registry'[k] = registry[k]]_vars

\* reached: reload_module removed the bare entry of the first occupant and a
\* registration of the same name has just put the newcomer under a suffixed
\* key, the first tracker pair still naming the bare key
C24_Witness ==
    /\ op = "reload_one"
    /\ last.step = "register"
    /\ last.name \in DOMAIN before
    /\ last.name \notin DOMAIN registry
    /\ name_tracker[last.name][1][2] = last.name
    /\ KeyFor(last.name, last.mod) \in DOMAIN registry
    /\ registry[KeyFor(last.name, last.mod)].had_collision

\* reload_module(m) has just returned its report, it was the first request
\* since startup, so the file of m is as startup loaded it, and no other
\* module has an entry for a name of m
ReloadedUnchanged ==
    /\ op = "reload_one"
    /\ last.step = "reload_one_done"
    /\ budget = MaxSteps - 1
    /\ \A k \in KeysOf(before, last.mod), j \in DOMAIN before :
         (before[j].original_name = before[k].original_name) => j = k

\* C25: a successful reload_module of a module whose file has not changed and
\* whose names collide with no other module leaves the registry keys and
\* every collision flag as they were and reports empty added and removed
\* sets without the advisory.
C25_ReloadOneIdempotent ==
    ReloadedUnchanged
    => /\ DOMAIN registry = DOMAIN before
       /\ \A k \in DOMAIN before : registry[k].had_collision = before[k].had_collision
       /\ result.tools_added = {}
       /\ result.tools_removed = {}
       /\ "suggestion" \notin DOMAIN result

\* m had no entry for the name n when the last request began
NotOfBefore(m, n) ==
    \A j \in KeysOf(before, m) : before[j].original_name # n

\* the entries other modules had when reload_module(last.mod) began are as
\* they were, or have been moved from the bare key to the suffixed key because
\* the reloaded file newly defines the name
OthersKept ==
    \A k \in DOMAIN before :
      (before[k].source_module # last.mod)
      => \/ (k \in DOMAIN registry /\ registry[k] = before[k])
         \/ LET k2 == KeyFor(k, before[k].source_module)
            IN  /\ k = before[k].original_name
                /\ k \notin DOMAIN registry
                /\ k2 \in DOMAIN registry
                /\ registry[k2] = [before[k] EXCEPT !.had_collision = TRUE]
                /\ k \in BoundNames(ReloadedFile(last.mod))
                /\ NotOfBefore(last.mod, k)

\* C26: a successful reload_module(m) removes no entry of another module and
\* changes none of its callable, description, module and original name; the
\* only change to such an entry is the rename from the bare key n to
\* n_<that module> when m newly defines n; and no registration of the reload
\* changes the tracker history of a name the file of m does not define.
C26_ReloadOneFrame ==
    [][/\ (pc = "register" /\ op = "reload_one" /\ last'.step = "reload_one_done")
          => OthersKept'
       /\ (pc = "register" /\ op = "reload_one" /\ pending # <<>> /\ pending' # pending)
          => \A n \in DOMAIN name_tracker :
               (n \notin BoundNames(ReloadedFile(cur_mod)))
               => name_tracker'[n] = name_tracker[n]]_vars

\* C27: the report of a successful reload_module(m) has added = the keys of m
\* after the call minus the keys of m before it, removed = the keys before
\* minus the keys after, and carries the advisory exactly when one of the two
\* sets is not empty.
C27_ReportIsKeyDifference ==
    (op = "reload_one" /\ last.step = "reload_one_done")
    => /\ result.success
       /\ result.reloaded = last.mod
       /\ result.tools_added = KeysOf(registry, last.mod) \ KeysOf(before, last.mod)
       /\ result.tools_removed = KeysOf(before, last.mod) \ KeysOf(registry, last.mod)
       /\ ("suggestion" \in DOMAIN result)
            <=> (result.tools_added # {} \/ result.tools_removed # {})

\* reached: a reload_module that changed no key of its module has reported
\* empty sets without the advisory
C27_Witness ==
    /\ op = "reload_one"
    /\ last.step = "reload_one_done"
    /\ KeysOf(registry, last.mod) # {}
    /\ KeysOf(registry, last.mod) = KeysOf(before, last.mod)
    /\ result.tools_added = {}
    /\ result.tools_removed = {}
    /\ "suggestion" \notin DOMAIN result

\* the registration loop of one module, run to its end
RECURSIVE RegisterAll(_, _, _, _, _)
RegisterAll(reg, nt, names, module_name, ns) ==
    IF names = <<>> THEN [registry |-> reg, name_tracker |-> nt]
    ELSE LET r == RegisterTool(reg, nt, Head(names), module_name, ns[Head(names)])
         IN  RegisterAll(r.registry, r.name_tracker, Tail(names), module_name, ns)

\* the loading loop of __init__ over the accepted files oks, run to its end
\* from the state acc: a file that raises is logged as import_error and the
\* loop goes on
RECURSIVE StartupLoad(_, _, _)
StartupLoad(oks, f, acc) ==
    IF oks = <<>> THEN acc
    ELSE LET mod_path == Head(oks)
             mod_name == mod_path.stem
             r == ImportFile(f[mod_path.dir][mod_path.stem], 0)
         IN  IF r.raised
             THEN StartupLoad(Tail(oks), f,
                              [acc EXCEPT !.rejected =
                                   Append(@, <<mod_path, "import_error">>)])
             ELSE LET t == RegisterAll(acc.registry, acc.name_tracker,
                                       CleanList(r.ns), mod_name, r.ns)
                  IN  StartupLoad(Tail(oks), f,
                                  [acc EXCEPT !.registry = t.registry,
                                              !.name_tracker = t.name_tracker,
                                              !.mods = @ \cup {mod_name}])

\* what a newly constructed handler holds for the files f
FreshStart(f, order, private_exists) ==
    LET d == Discover(ValidDirs(private_exists), f, order)
    IN  StartupLoad(d.okmods, f,
                    [registry |-> EmptyMap, name_tracker |-> EmptyMap,
                     mods |-> {}, rejected |-> d.rejected])

\* an entry without its callable
Meta(e) == [source_module |-> e.source_module,
            original_name |-> e.original_name,
            had_collision |-> e.had_collision]

\* the handler's registry (keys, modules, original names, flags), tracker,
\* loaded identifiers and rejection log are those of the state s
SameAs(s) ==
    /\ DOMAIN registry = DOMAIN s.registry
    /\ \A k \in DOMAIN registry : Meta(registry[k]) = Meta(s.registry[k])
    /\ name_tracker = s.name_tracker
    /\ DOMAIN loaded_mods = s.mods
    /\ rejected_modules = s.rejected

\* C28: after reload_all the registry (keys, originating modules, original
\* names, collision flags), the name tracker, the loaded identifiers and the
\* rejection log are those a newly constructed handler produces for the same
\* files, whatever the state before the reload.
C28_ReloadAllIsFreshStart ==
    (op = "reload_all" /\ last.step \in {"loaded", "load_raised"})
    => SameAs(FreshStart(fs, dirorder, priv_exists))

\* the place of e in the sequence seq
Pos(seq, e) == CHOOSE i \in 1..Len(seq) : seq[i] = e

\* the sequence sub lists elements of seq, each once, in the order of seq
InOrderOf(sub, seq) ==
    /\ \A i \in 1..Len(sub) : \E j \in 1..Len(seq) : seq[j] = sub[i]
    /\ \A i, j \in 1..Len(sub) : (i < j) => Pos(seq, sub[i]) < Pos(seq, sub[j])

\* the files as glob lists them now
GlobNow == RawModules(valid_dirs, fs, dirorder)

\* C29: a reload_all that follows a reload_all with no change on disk between
\* them leaves the same accepted sequence, the same rejection log in the same
\* order, the same registry keys and the same collision flags; and after
\* every reload_all the accepted sequence and the rejection log are in the
\* order in which the scan met the files.
C29_ScanStable ==
    (op = "reload_all" /\ last.step \in {"loaded", "load_raised"})
    => /\ InOrderOf([i \in 1..Len(rejected_modules) |-> rejected_modules[i][1]], GlobNow)
       /\ InOrderOf([i \in 1..Len(okmods) |-> okmods[i]],
                    [i \in 1..Len(GlobNow) |-> Resolve(GlobNow[i], fs)])
       /\ prior.stable
            => /\ okmods = prior.okmods
               /\ rejected_modules = prior.rejected
               /\ DOMAIN registry = DOMAIN before
               /\ \A k \in DOMAIN before :
                    registry[k].had_collision = before[k].had_collision

\* reached: the second of two consecutive reload_all calls has returned, with
\* accepted files, a rejected file and registered tools
C29_Witness ==
    /\ op = "reload_all"
    /\ last.step = "loaded"
    /\ prior.stable
    /\ okmods # <<>>
    /\ rejected_modules # <<>>
    /\ DOMAIN registry # {}
    /\ okmods = prior.okmods
    /\ rejected_modules = prior.rejected

\* C30: for every original name the tracker history holds at most one pair
\* per module identifier; a reload_module of a module that already claimed
\* the name appends no second pair for it.
C30_OnePairPerModule ==
    \A n \in DOMAIN name_tracker :
      \A i, j \in 1..Len(name_tracker[n]) :
        (i # j) => name_tracker[n][i][1] # name_tracker[n][j][1]

\* C31: the key and the collision flag of every registry entry agree: the key
\* is the original name exactly when the flag is false, otherwise the key is
\* original name + "_" + originating module and the flag is true; and for one
\* original name a bare-keyed entry and a suffixed entry are never both in
\* the registry.
C31_KeyAgreesWithFlag ==
    /\ \A k \in DOMAIN registry :
         /\ (k = registry[k].original_name) <=> ~registry[k].had_collision
         /\ registry[k].had_collision
              => k = KeyFor(registry[k].original_name, registry[k].source_module)
    /\ \A k1, k2 \in DOMAIN registry :
         (registry[k1].original_name = registry[k2].original_name /\ k1 # k2)
         => (k1 # registry[k1].original_name /\ k2 # registry[k2].original_name)

\* reached: the registry holds a bare, unflagged entry of one name next to two
\* suffixed, flagged entries of another name
C31_Witness ==
    /\ pc = "idle"
    /\ bar \in DOMAIN registry
    /\ ~registry[bar].had_collision
    /\ \E m1, m2 \in Stems :
         /\ m1 # m2
         /\ KeyFor(foo, m1) \in DOMAIN registry
         /\ KeyFor(foo, m2) \in DOMAIN registry
         /\ registry[KeyFor(foo, m1)].had_collision
         /\ registry[KeyFor(foo, m2)].had_collision
    /\ foo \notin DOMAIN registry

\* C32: from the call of reload_module until the next reload_all begins no
\* step changes the set of loaded module identifiers or the rejection log,
\* whether the reload succeeds or fails; a module that is not loaded stays
\* not loaded, and a failed reload is told only by the returned value.
C32_ReloadOneKeepsModulesAndLog ==
    [][/\ (op' = "reload_one")
          => /\ DOMAIN loaded_mods' = DOMAIN loaded_mods
             /\ rejected_modules' = rejected_modules
       /\ (ReloadOneStep /\ last'.step \in {"reload_one_not_loaded",
                                            "reload_one_not_found",
                                            "reload_one_raised"})
          => /\ result'.success = FALSE
             /\ "error" \in DOMAIN result'
             /\ pc' = "idle"
             /\ okmods' = okmods
             /\ sys_modules' = sys_modules]_vars

\* reached: reload_module of a loaded module has failed because its file now
\* raises; the module is still loaded, its file is not in the rejection log,
\* and the log still holds what the scan rejected
C32_Witness ==
    /\ op = "reload_one"
    /\ last.step = "reload_one_raised"
    /\ result = ReloadFailure
    /\ last.mod \in DOMAIN loaded_mods
    /\ rejected_modules # <<>>
    /\ \A r \in RejectedSet : r[1].stem # last.mod

\* the directories of the paths in a sequence of paths
DirsOf(paths) == {paths[i].dir : i \in 1..Len(paths)}

\* C33: the roots are fixed at construction: the public root always, the
\* private root exactly when it exists then, and a private root that does
\* not exist is skipped without a rejection; no later step changes the list;
\* reload_all scans only the roots of the list and reload_module looks for
\* the file only under them, also when the private root was created later.
C33_RootsFixedAtConstruction ==
    [][/\ (pc = "boot")
          => /\ valid_dirs'[1] = "modules"
             /\ Len(valid_dirs') = (IF priv_exists THEN 2 ELSE 1)
             /\ priv_exists => valid_dirs'[2] = "private/modules"
             /\ \A i \in 1..Len(rejected_modules') :
                  rejected_modules'[i][1].dir \in {"modules"} \cup
                      (IF priv_exists THEN {"private/modules"} ELSE {})
       /\ (pc # "boot") => valid_dirs' = valid_dirs
       /\ (pc = "idle" /\ last'.step = "scan")
          => /\ DirsOf(okmods') \subseteq ValidDirSet
             /\ DirsOf([i \in 1..Len(rejected_modules') |-> rejected_modules'[i][1]])
                  \subseteq ValidDirSet
       /\ (ReloadOneStep /\ last'.mod \in DOMAIN loaded_mods
             /\ \A d \in ValidDirSet : fs[d][last'.mod].kind = "none")
          => /\ last'.step = "reload_one_not_found"
             /\ result' = ReloadFailure]_vars

\* reached: the private root did not exist at startup, was created later
\* with a module file in it, and a reload_all has finished without scanning it
C33_Witness ==
    /\ op = "reload_all"
    /\ last.step = "loaded"
    /\ valid_dirs = <<"modules">>
    /\ priv_exists
    /\ fs["private/modules"][mx] = File(CFoo)
    /\ \A i \in 1..Len(okmods) : okmods[i].dir = "modules"
    /\ mx \notin DOMAIN loaded_mods
    /\ rejected_modules = <<>>

====
